---- MODULE Spec2Model ----
(***************************************************************************)
(* The room/round session engine of the drawing-and-guessing server        *)
(* (src/unnamed/part_001, lines 1-441: the CommonJS server with avatars,   *)
(* anti-cheat and word manager), with src/game/wordManager.js.             *)
(*                                                                         *)
(* Node runs every socket handler and every timer callback to completion,  *)
(* so each handler and each callback is one atomic action.  Time is        *)
(* counted in seconds: a timer carries the seconds left until it is due,   *)
(* Advance lets one second pass when no timer is due, and timers that are  *)
(* due in the same second fire in either order (socket events arrive at    *)
(* any moment in between).                                                 *)
(*                                                                         *)
(* A TypeError thrown inside a handler or a timer callback is not caught   *)
(* anywhere in the source: the process dies and its in-memory state with   *)
(* it.  That is the state crashed = TRUE, in which nothing is left.        *)
(*                                                                         *)
(* Not modelled: the handlers updateAvatar, drawing and clearCanvas, which  *)
(* relay or store avatar and canvas data.  The anti-cheat guard of         *)
(* src/unnamed/part_000 reads the clock in milliseconds; it is exercised,  *)
(* with submitGuess and sendChatMessage as a whole, under SpecGuard, and   *)
(* with a connection that is lost and recovered under SpecRecover.  In     *)
(* the specifications that count seconds SubmitGuess is the handler from   *)
(* line 284 on, for a guess that checkCooldown has let through.            *)
(***************************************************************************)
EXTENDS Integers, Sequences, FiniteSets, TLC

\* ---- bounds of the model ------------------------------------------------
NumSockets == 3      \* connections that ever exist (socket ids 1..NumSockets)
NumCodes == 2        \* room codes generateRoomCode can return
MaxObjs == 2         \* room objects alive at once (live or kept by a timer)
MaxTimers == 3       \* timers pending at once
MaxRoster == 3       \* roster length reached under Spec
MaxRounds == 2       \* settings.rounds is drawn from 1..MaxRounds
MaxRoundTime == 2    \* settings.roundTime
MaxOvertime == 1     \* seconds a leaked interval runs gameState.timer below 0
MaxEntries == 3      \* createRoom and successful joinRoom calls in a run
MaxGames == 1        \* games started in a run
NumLobbySockets == 2 \* connections under SpecLobby
MaxLobbyEntries == 9 \* createRoom and successful joinRoom calls under SpecLobby
MaxRoomEntries == 4  \* createRoom and successful joinRoom calls under SpecRooms
ShortRound == 50     \* settings.roundTime under SpecScore: one of the two round times
LongRound == 60      \* settings.roundTime under SpecScore: the other one
LongGame == 5        \* settings.rounds under SpecLong
MaxSeconds == 6      \* seconds a run of SpecLong is followed for
Epoch == 100000      \* Date.now() when the server starts
MaxChecks == 6       \* calls of checkCooldown a run of SpecGuard is followed for
MaxSpanChecks == 7   \* calls of checkCooldown a run of SpecWindow is followed for

\* ---- constants of the program -------------------------------------------
Capacity == 8        \* part_001:85   players.length >= 8
TickDelay == 1       \* part_001:195  setInterval(..., 1000), in seconds
GraceDelay == 2      \* part_001:336  setTimeout(..., 2000)
NextDelay == 3       \* part_001:227  setTimeout(..., 3000)
MaxScore == 100      \* part_001:44
LastGuessTimeout == 1000  \* part_000:3  LAST_GUESS_TIMEOUT, in milliseconds
SpamLimit == 5            \* part_000:4  SPAM_LIMIT
SpamWindow == 5000        \* part_000:5  SPAM_WINDOW, in milliseconds

Sockets == 1..NumSockets
Codes == 1..NumCodes
ObjIds == 1..MaxObjs
TimerIds == 1..MaxTimers

\* Words are sequences of character codes; the word list itself (words.json)
\* is configuration, here the one word "Ab".
WordList == {<<65, 98>>}

\* String.prototype.toLowerCase on the character codes A-Z.
ToLowerCase(w) == [i \in 1..Len(w) |-> IF w[i] >= 65 /\ w[i] <= 90 THEN w[i] + 32 ELSE w[i]]

\* The guesses clients send: a word of the list typed in lower case ("ab"),
\* or something else ("x").
Guesses == {ToLowerCase(w) : w \in WordList} \cup {<<120>>}

NoRoom == [none |-> "room"]
NoPlayer == [none |-> "player"]
NoTimer == [none |-> "timer"]
NoGame == [none |-> "gameState"]
NoWord == <<>>
NoEntry == [none |-> "entry"]
NoVerdict == [none |-> "verdict"]

VARIABLES
  rooms,        \* rooms: room code -> room object (0: no such key)
  roomObjs,     \* the room objects themselves, by identity
  players,      \* players: socket id -> {room, isHost}
  timers,       \* pending setInterval / setTimeout callbacks
  activeWords,  \* wordManager.activeWords (keys only)
  closed,       \* sockets whose connection has ended
  out,          \* what the last handler or callback emitted
  crashed,      \* an uncaught TypeError ended the process
  calls,        \* rooms entered, games started, seconds counted (they bound the run)
  cooldowns,    \* antiCheat cooldowns: player id -> {guess, message} timestamps
  spamCounts,   \* antiCheat spamCounts: player id -> {count, lastReset}
  now,          \* Date.now(), in milliseconds
  log           \* the calls of checkCooldown so far and what each returned

vars == <<rooms, roomObjs, players, timers, activeWords, closed, out, crashed, calls,
          cooldowns, spamCounts, now, log>>

Min(X) == CHOOSE i \in X : \A j \in X : i <= j

Ids(roster) == {roster[i].id : i \in 1..Len(roster)}

\* The state a handler works on, as one record; skip marks a combination of
\* inputs that no run of the code produces (or one past the model's bounds).
State ==
  [rooms |-> rooms, roomObjs |-> roomObjs, players |-> players, timers |-> timers,
   activeWords |-> activeWords, cooldowns |-> cooldowns, spamCounts |-> spamCounts,
   log |-> log, verdict |-> NoVerdict, out |-> <<>>, crashed |-> FALSE, skip |-> FALSE]

Stopped(S) == S.crashed \/ S.skip

Throw(S) == [S EXCEPT !.crashed = TRUE]

Skip(S) == [S EXCEPT !.skip = TRUE]

\* io.to(x).emit / socket.to(x).emit / callback(...)
Emit(S, ev, aud, to, arg) ==
  [S EXCEPT !.out = Append(@, [ev |-> ev, aud |-> aud, to |-> to, arg |-> arg])]

\* ---- JavaScript Number arithmetic (IEEE 754 binary64) ---------------------
\* A positive Number is [m, e]: m holds the Precision bits of its significand,
\* most significant first (m[1] = 1), and e is the binary exponent of m[1].
Precision == 53

\* The exponents tried when a quotient of two integers is normalised.
MaxShift == 16

\* Significands are worked on Chunk binary digits at a time, so that every
\* intermediate integer stays far below 2^31.
Chunk == 13

\* The natural number n < 2^width as width binary digits, most significant first.
Bits(n, width) == [i \in 1..width |-> (n \div 2^(width - i)) % 2]

\* The binary digits of the natural number n < 2^30, without leading zeros.
ToBits(n) ==
  Bits(n, CHOOSE w \in 0..30 : n < 2^w /\ (w = 0 \/ n >= 2^(w - 1)))

RECURSIVE FromBits(_)
\* The natural number with the binary digits bits.
FromBits(bits) ==
  IF bits = <<>> THEN 0
  ELSE 2 * FromBits(SubSeq(bits, 1, Len(bits) - 1)) + bits[Len(bits)]

RECURSIVE QuotientBits(_, _, _)
\* The next n binary digits of r / den (r < den), and the remainder left over.
QuotientBits(r, den, n) ==
  IF n = 0 THEN [bits |-> <<>>, rem |-> r]
  ELSE LET w == IF n < Chunk THEN n ELSE Chunk
           rest == QuotientBits((r * 2^w) % den, den, n - w)
       IN [bits |-> Bits((r * 2^w) \div den, w) \o rest.bits, rem |-> rest.rem]

\* bits + 1; one digit longer when every digit was 1.
Increment(bits) ==
  LET zeros == {i \in 1..Len(bits) : bits[i] = 0}
  IN IF zeros = {} THEN <<1>> \o [i \in 1..Len(bits) |-> 0]
     ELSE LET z == CHOOSE i \in zeros : \A j \in zeros : j <= i
          IN [i \in 1..Len(bits) |-> IF i < z THEN bits[i] ELSE IF i = z THEN 1 ELSE 0]

RECURSIVE TimesSmall(_, _, _)
\* bits * c + carry for small naturals c and carry, as binary digits.
TimesSmall(bits, c, carry) ==
  IF bits = <<>> THEN ToBits(carry)
  ELSE LET w == IF Len(bits) < Chunk THEN Len(bits) ELSE Chunk
           d == FromBits(SubSeq(bits, Len(bits) - w + 1, Len(bits))) * c + carry
       IN TimesSmall(SubSeq(bits, 1, Len(bits) - w), c, d \div 2^w) \o Bits(d % 2^w, w)

\* Rounding to nearest, ties to even: the exact value has the digits bits
\* (more than Precision of them, bits[1] = 1, exponent e of bits[1]) followed
\* by something non-zero iff sticky.
RoundToNearestEven(bits, e, sticky) ==
  LET m == SubSeq(bits, 1, Precision)
      guard == bits[Precision + 1]
      rest == sticky \/ \E i \in (Precision + 2)..Len(bits) : bits[i] = 1
      r == IF guard = 1 /\ (rest \/ m[Precision] = 1) THEN Increment(m) ELSE m
  IN IF Len(r) > Precision THEN [m |-> SubSeq(r, 1, Precision), e |-> e + 1]
     ELSE [m |-> r, e |-> e]

\* The Number a / b for integers a > 0 and b > 0.
FloatDivide(a, b) ==
  LET e == IF a >= b
           THEN CHOOSE k \in 0..MaxShift : b * 2^k <= a /\ a < b * 2^(k + 1)
           ELSE 0 - (CHOOSE k \in 1..MaxShift : a * 2^k >= b /\ a * 2^(k - 1) < b)
      n == IF e >= 0 THEN a ELSE a * 2^(0 - e)
      den == IF e >= 0 THEN b * 2^e ELSE b
      q == QuotientBits(n - den, den, Precision)
  IN RoundToNearestEven(<<1>> \o q.bits, e, q.rem # 0)

\* The Number c * x for a Number x and a small natural c >= 1.
FloatTimes(c, x) ==
  LET product == TimesSmall(x.m, c, 0)
  IN RoundToNearestEven(product \o <<0>>, x.e - (Precision - 1) + (Len(product) - 1), FALSE)

\* Math.floor of a positive Number below 2^31.
FloatFloor(x) == IF x.e < 0 THEN 0 ELSE FromBits(SubSeq(x.m, 1, x.e + 1))

\* The Number is an integer.
FloatIsInteger(x) == x.e >= 0 /\ \A i \in (x.e + 2)..Precision : x.m[i] = 0

\* calculateScore: Math.floor(maxScore * (timeLeft / roundTime)), in Number
\* arithmetic, for an integer timeLeft and an integer roundTime > 0.
CalculateScore(timeLeft, roundTime) ==
  IF timeLeft = 0 THEN 0
  ELSE LET a == IF timeLeft > 0 THEN timeLeft ELSE 0 - timeLeft
           y == FloatTimes(MaxScore, FloatDivide(a, roundTime))
       IN IF timeLeft > 0 THEN FloatFloor(y)
          ELSE IF FloatIsInteger(y) THEN 0 - FloatFloor(y)
          ELSE 0 - FloatFloor(y) - 1

\* The handles setInterval / setTimeout can return next.
FreeTimers(S) == {i \in TimerIds : S.timers[i] = NoTimer}

\* setInterval / setTimeout: the callback kind, the roomCode and (for the tick)
\* the room object its closure captured, and the seconds until it is due.
SetTimer(S, kind, code, obj, delay) ==
  IF FreeTimers(S) = {} THEN Skip(S)
  ELSE [S EXCEPT !.timers[Min(FreeTimers(S))] =
          [kind |-> kind, code |-> code, obj |-> obj, due |-> delay]]

\* clearInterval(handle): a no-op for undefined and for a handle no longer
\* pending.  A field that held the cleared handle reads 0 from then on: a
\* handle that is no longer pending and no handle at all behave alike.
ClearInterval(S, h) ==
  IF h = 0 THEN S
  ELSE [S EXCEPT !.timers[h] = NoTimer,
                 !.roomObjs = [o \in ObjIds |->
                     IF @[o] # NoRoom /\ @[o].timerInterval = h
                     THEN [@[o] EXCEPT !.timerInterval = 0] ELSE @[o]]]

\* getRandomWord: the word drawn is w; its lower-case form is locked.
GetRandomWord(S, w) == [S EXCEPT !.activeWords = @ \cup {ToLowerCase(w)}]

\* releaseWord
ReleaseWord(S, w) == [S EXCEPT !.activeWords = @ \ {ToLowerCase(w)}]

\* maskWord(word) with the default revealPercentage 0.3: for words of up to 6
\* letters revealCount is 1, so only the first letter is revealed and no random
\* position is drawn; the other letters read '_' (95), joined by ' ' (32).
MaskWord(word) ==
  [i \in 1..(2 * Len(word) - 1) |->
     IF i % 2 = 0 THEN 32 ELSE IF i = 1 THEN word[1] ELSE 95]

\* ---- antiCheat (src/unnamed/part_000) -------------------------------------
\* A faulty cooldown test: an action one millisecond short of LastGuessTimeout
\* after the last accepted one is let through.
CooldownLeftShort(last, t) == last + LastGuessTimeout - t - 1

\* checkCooldown line 27: remaining = playerCooldown[type] + LAST_GUESS_TIMEOUT - now
CooldownLeft(last, t) == last + LastGuessTimeout - t

\* A faulty burst test: one action too many is let through.
BurstReachedLate(count) == count > SpamLimit

\* checkCooldown line 21: spamCounts.get(playerId).count >= SPAM_LIMIT
BurstReached(count) == count >= SpamLimit

\* What checkCooldown returns, entered in the log; first tells that the call
\* found no spamCounts entry for the player and made one (lines 14-16).
Return(S, playerId, type, t, first, allowed, remaining) ==
  [S EXCEPT !.verdict = [allowed |-> allowed, remaining |-> remaining],
            !.log = Append(@, [id |-> playerId, type |-> type, t |-> t,
                               first |-> first, allowed |-> allowed])]

\* checkCooldown(playerId, type) called when Date.now() is t; the value it
\* returns is left in verdict.
CheckCooldown(S, playerId, type, t) ==
  LET S1 == IF S.cooldowns[playerId] # NoEntry THEN S
            ELSE [S EXCEPT !.cooldowns[playerId] = [guess |-> 0, message |-> 0]]
      S2 == IF S1.spamCounts[playerId] # NoEntry THEN S1
            ELSE [S1 EXCEPT !.spamCounts[playerId] = [count |-> 0, lastReset |-> t]]
      first == S1.spamCounts[playerId] = NoEntry
      spam == S2.spamCounts[playerId]
      expired == t - spam.lastReset > SpamWindow
      S3 == IF expired
            THEN [S2 EXCEPT !.spamCounts[playerId] = [count |-> 0, lastReset |-> t]]
            ELSE S2
      remaining == CooldownLeft(S3.cooldowns[playerId][type], t)
  IN IF ~expired /\ BurstReached(spam.count)
     THEN Return(S3, playerId, type, t, first, FALSE, SpamWindow - (t - spam.lastReset))
     ELSE IF remaining > 0
     THEN Return(S3, playerId, type, t, first, FALSE, remaining)
     ELSE Return([S3 EXCEPT !.cooldowns[playerId][type] = t,
                            !.spamCounts[playerId].count = @ + 1],
                 playerId, type, t, first, TRUE, 0)

\* resetSpamCounter
ResetSpamCounter(S, playerId) == [S EXCEPT !.spamCounts[playerId] = NoEntry]

\* A room object.  gameState is NoGame while undefined (a new room) or null
\* (after playAgain); timerInterval 0 is undefined.
NewRoom(s) ==
  [players |-> <<[id |-> s, isHost |-> TRUE]>>, host |-> s, state |-> "lobby",
   gameState |-> NoGame, timerInterval |-> 0]

\* startGame's gameState literal (lines 136-148).  endRuns is a history field:
\* how often endRound has run since the last round setup.
NewGameState(room, rounds, roundTime) ==
  [rounds |-> rounds, currentRound |-> 1, roundTime |-> roundTime,
   scores |-> [p \in Sockets |-> 0], playersWhoGuessed |-> {},
   allPlayers |-> Ids(room.players), currentDrawer |-> 0, word |-> NoWord,
   timer |-> 0, endRuns |-> 0]

\* endGame
EndGame(S, code) ==
  IF Stopped(S) \/ S.rooms[code] = 0 THEN S
  ELSE LET o == S.rooms[code]
       IN Emit([S EXCEPT !.roomObjs[o].state = "ended"], "gameEnded", "room", code, <<>>)

\* endRound
EndRound(S, code) ==
  IF Stopped(S) \/ S.rooms[code] = 0 THEN S
  ELSE LET o == S.rooms[code]
           room == S.roomObjs[o]
           S1 == ClearInterval(S, room.timerInterval)
       IN IF room.gameState = NoGame THEN Throw(S1)   \* room.gameState.word
          ELSE LET gs == room.gameState
                   S2 == [ReleaseWord(S1, gs.word) EXCEPT
                            !.roomObjs[o].gameState.endRuns = IF @ < 2 THEN @ + 1 ELSE @]
               IN IF gs.currentRound >= gs.rounds THEN EndGame(S2, code)
                  ELSE SetTimer(
                         Emit([S2 EXCEPT !.roomObjs[o].gameState.currentRound = @ + 1],
                              "roundEnded", "room", code, <<>>),
                         "next", code, 0, NextDelay)

\* A faulty startRound filter: the previous drawer is not filtered out.
EligiblePlayersAll(roster, previousDrawer) == roster

\* startRound line 159: the members other than the previous drawer.
EligiblePlayers(roster, previousDrawer) ==
  SelectSeq(roster, LAMBDA p : p.id # previousDrawer)

\* startRound; d is the id of the drawer Math.random selects and w the word
\* getRandomWord draws.
StartRound(S, code, d, w) ==
  IF Stopped(S) \/ S.rooms[code] = 0 THEN S
  ELSE LET o == S.rooms[code]
           room == S.roomObjs[o]
           previousDrawer == IF room.gameState = NoGame THEN 0
                             ELSE room.gameState.currentDrawer
           eligiblePlayers == EligiblePlayers(room.players, previousDrawer)
       IN IF Len(eligiblePlayers) = 0 \/ room.gameState = NoGame
          THEN Throw(S)   \* drawer.id of undefined, or gameState.currentDrawer of undefined
          ELSE IF d \notin Ids(eligiblePlayers) \/ FreeTimers(S) = {} THEN Skip(S)
          ELSE LET h == Min(FreeTimers(S))
                   S1 == GetRandomWord(S, w)
                   S2 == [S1 EXCEPT
                            !.roomObjs[o].gameState.currentDrawer = d,
                            !.roomObjs[o].gameState.word = w,
                            !.roomObjs[o].gameState.playersWhoGuessed = {},
                            !.roomObjs[o].gameState.timer = room.gameState.roundTime,
                            !.roomObjs[o].gameState.endRuns = 0,
                            !.roomObjs[o].timerInterval = h]
                   S3 == [S2 EXCEPT !.timers[h] =
                            [kind |-> "tick", code |-> code, obj |-> o, due |-> TickDelay]]
               IN Emit(Emit(S3, "roundStarted", "room", code, <<d>>),
                       "wordUpdate", "socket", d, w)

\* socket.on('createRoom'); code is what generateRoomCode returns.
CreateRoom(S, s, code) ==
  LET free == {o \in ObjIds : S.roomObjs[o] = NoRoom}
  IN IF free = {} THEN Skip(S)
     ELSE LET o == Min(free)
              S1 == [S EXCEPT !.roomObjs[o] = NewRoom(s),
                              !.rooms[code] = o,
                              !.players[s] = [room |-> code, isHost |-> TRUE]]
          IN Emit(Emit(S1, "roomCode", "reply", s, <<code>>),
                  "playerUpdate", "room", code, <<>>)

\* A faulty capacity test: off by one.
RoomIsFullLate(roster) == Len(roster) > Capacity

\* joinRoom line 85: rooms[roomCode].players.length >= 8
RoomIsFull(roster) == Len(roster) >= Capacity

\* socket.on('joinRoom'); limit is the roster length the model stops at.
JoinRoom(S, s, code, limit) ==
  IF S.rooms[code] = 0 THEN Emit(S, "Room not found", "reply", s, <<>>)
  ELSE LET o == S.rooms[code]
           room == S.roomObjs[o]
       IN IF room.state # "lobby" THEN Emit(S, "Game already started", "reply", s, <<>>)
          ELSE IF RoomIsFull(room.players) THEN Emit(S, "Room is full", "reply", s, <<>>)
          ELSE IF Len(room.players) >= limit THEN Skip(S)
          ELSE LET S1 == [S EXCEPT
                            !.roomObjs[o].players = Append(@, [id |-> s, isHost |-> FALSE]),
                            !.players[s] = [room |-> code, isHost |-> FALSE]]
               IN Emit(Emit(S1, "playerUpdate", "room", code, <<>>),
                       "success", "reply", s, <<>>)

\* socket.on('startGame') with settings {rounds, roundTime}
StartGame(S, s, rounds, roundTime, d, w) ==
  LET player == S.players[s]
  IN IF player = NoPlayer THEN S
     ELSE IF ~player.isHost THEN S
     ELSE IF S.rooms[player.room] = 0 THEN S
     ELSE LET code == player.room
              o == S.rooms[code]
              room == S.roomObjs[o]
          IN IF room.state # "lobby" THEN S
             ELSE StartRound(
                    [S EXCEPT !.roomObjs[o].state = "playing",
                              !.roomObjs[o].gameState = NewGameState(room, rounds, roundTime)],
                    code, d, w)

\* A faulty duplicate test: nobody counts as having guessed.
AlreadyGuessedNever(gs, s) == FALSE

\* submitGuess line 291: playersWhoGuessed.includes(socket.id)
AlreadyGuessed(gs, s) == s \in gs.playersWhoGuessed

\* socket.on('submitGuess'), past the anti-cheat check of lines 281-282 (a
\* guess checkCooldown rejects returns there and touches no room).
SubmitGuess(S, s, guess) ==
  LET player == S.players[s]
  IN IF player = NoPlayer THEN S
     ELSE IF S.rooms[player.room] = 0 THEN S
     ELSE LET code == player.room
              o == S.rooms[code]
              room == S.roomObjs[o]
              gs == room.gameState
          IN IF room.state # "playing" THEN S
             ELSE IF s = gs.currentDrawer THEN S
             ELSE IF AlreadyGuessed(gs, s) THEN S
             ELSE IF ToLowerCase(guess) # ToLowerCase(gs.word)
             THEN Emit(S, "gameMessage", "room", code, guess)
             ELSE LET score == CalculateScore(gs.timer, gs.roundTime)
                      drawerScore == score \div 2
                      scores1 == [gs.scores EXCEPT ![s] = @ + score]
                      scores2 == [scores1 EXCEPT ![gs.currentDrawer] = @ + drawerScore]
                      guessed == gs.playersWhoGuessed \cup {s}
                      S1 == [S EXCEPT !.roomObjs[o].gameState.scores = scores2,
                                      !.roomObjs[o].gameState.playersWhoGuessed = guessed]
                      S2 == Emit(Emit(S1, "correctGuess", "socket", s, gs.word),
                                 "correctGuess", "others", code,
                                 IF Len(room.players) > 2 THEN MaskWord(gs.word) ELSE gs.word)
                      allGuessed == \A id \in gs.allPlayers :
                                      id = gs.currentDrawer \/ id \in guessed
                  IN IF allGuessed
                     THEN SetTimer(ClearInterval(S2, room.timerInterval),
                                   "grace", code, 0, GraceDelay)
                     ELSE S2

\* socket.on('playAgain')
PlayAgain(S, s) ==
  LET player == S.players[s]
  IN IF player = NoPlayer THEN S
     ELSE IF ~player.isHost THEN S
     ELSE IF S.rooms[player.room] = 0 THEN S
     ELSE LET code == player.room
              o == S.rooms[code]
          IN IF S.roomObjs[o].state # "ended" THEN S
             ELSE Emit([S EXCEPT !.roomObjs[o].state = "lobby",
                                 !.roomObjs[o].gameState = NoGame],
                       "lobbyRestarted", "room", code, <<>>)

\* socket.on('submitGuess') as a whole, arriving when Date.now() is t.
SubmitGuessAt(S, s, guess, t) ==
  IF S.players[s] = NoPlayer THEN S
  ELSE LET S1 == CheckCooldown(S, s, "guess", t)
       IN IF ~S1.verdict.allowed THEN S1 ELSE SubmitGuess(S1, s, guess)

\* socket.on('sendChatMessage'), arriving when Date.now() is t.
SendChatMessage(S, s, t) ==
  IF S.players[s] = NoPlayer THEN S
  ELSE LET S1 == CheckCooldown(S, s, "message", t)
       IN IF ~S1.verdict.allowed THEN S1
          ELSE Emit(S1, "chatMessage", "room", S.players[s].room, <<>>)

\* socket.on('disconnect')
Disconnect(S, s) ==
  LET player == S.players[s]
  IN IF player = NoPlayer THEN S
     ELSE IF S.rooms[player.room] = 0 THEN S
     ELSE LET code == player.room
              o == S.rooms[code]
              room == S.roomObjs[o]
              rest == SelectSeq(room.players, LAMBDA p : p.id # s)
              S1 == ResetSpamCounter(
                      [S EXCEPT !.roomObjs[o].players = rest, !.players[s] = NoPlayer], s)
          IN IF Len(rest) = 0 THEN [S1 EXCEPT !.rooms[code] = 0]
             ELSE LET S2 == Emit(S1, "playerUpdate", "room", code, <<>>)
                      newHost == rest[1]
                      S3 == IF s # room.host THEN S2
                            ELSE IF S2.players[newHost.id] = NoPlayer
                            THEN Throw(S2)   \* players[newHost.id].isHost of undefined
                            ELSE Emit([S2 EXCEPT !.roomObjs[o].host = newHost.id,
                                                 !.players[newHost.id].isHost = TRUE],
                                      "newHost", "room", code, <<newHost.id>>)
                  IN IF Stopped(S3) THEN S3
                     ELSE IF room.state = "playing" /\ room.gameState # NoGame
                             /\ s = room.gameState.currentDrawer
                     THEN EndRound(ClearInterval(S3, room.timerInterval), code)
                     ELSE S3

\* The setInterval callback of startRound, for the pending timer t.
Tick(S, t) ==
  LET code == S.timers[t].code
      o == S.timers[t].obj
      room == S.roomObjs[o]
  IN IF room.gameState = NoGame THEN Throw(S)   \* room.gameState.timer of null
     ELSE IF room.gameState.timer - 1 < 0 - MaxOvertime THEN Skip(S)
     ELSE LET S1 == Emit([S EXCEPT !.roomObjs[o].gameState.timer = @ - 1],
                         "timerUpdate", "room", code, <<room.gameState.timer - 1>>)
              S2 == IF room.gameState.timer - 1 <= 0
                    THEN EndRound(ClearInterval(S1, room.timerInterval), code)
                    ELSE S1
          IN IF Stopped(S2) \/ S2.timers[t] # S.timers[t] THEN S2   \* cleared meanwhile
             ELSE [S2 EXCEPT !.timers[t].due = TickDelay]

\* The setTimeout callback of submitGuess, () => endRound(roomCode).
GraceTimeout(S, t) ==
  EndRound([S EXCEPT !.timers[t] = NoTimer], S.timers[t].code)

\* The setTimeout callback of endRound, () => startRound(roomCode).
NextTimeout(S, t, d, w) ==
  StartRound([S EXCEPT !.timers[t] = NoTimer], S.timers[t].code, d, w)

\* A room object stays in memory while rooms or a tick closure refers to it.
Collect(S) ==
  [o \in ObjIds |->
     IF \/ \E c \in Codes : S.rooms[c] = o
        \/ \E t \in TimerIds : S.timers[t] # NoTimer /\ S.timers[t].obj = o
     THEN S.roomObjs[o] ELSE NoRoom]

Init ==
  /\ rooms = [c \in Codes |-> 0]
  /\ roomObjs = [o \in ObjIds |-> NoRoom]
  /\ players = [s \in Sockets |-> NoPlayer]
  /\ timers = [t \in TimerIds |-> NoTimer]
  /\ activeWords = {}
  /\ closed = {}
  /\ out = <<>>
  /\ crashed = FALSE
  /\ calls = [enter |-> 0, start |-> 0, seconds |-> 0]
  /\ cooldowns = [s \in Sockets |-> NoEntry]
  /\ spamCounts = [s \in Sockets |-> NoEntry]
  /\ now = Epoch
  /\ log = <<>>

\* The handler or callback that produced R has returned (or thrown).  A call
\* that returned at a guard, with nothing changed and nothing emitted, is no step.
CommitAt(R, cl, cnt, clock) ==
  /\ ~R.skip
  /\ R # State \/ cl # closed
  /\ IF R.crashed
     THEN /\ rooms' = [c \in Codes |-> 0]
          /\ roomObjs' = [o \in ObjIds |-> NoRoom]
          /\ players' = [s \in Sockets |-> NoPlayer]
          /\ timers' = [t \in TimerIds |-> NoTimer]
          /\ activeWords' = {}
          /\ closed' = Sockets
          /\ out' = <<>>
          /\ crashed' = TRUE
          /\ calls' = [enter |-> 0, start |-> 0, seconds |-> 0]
          /\ cooldowns' = [s \in Sockets |-> NoEntry]
          /\ spamCounts' = [s \in Sockets |-> NoEntry]
          /\ log' = <<>>
     ELSE /\ rooms' = R.rooms
          /\ roomObjs' = Collect(R)
          /\ players' = R.players
          /\ timers' = R.timers
          /\ activeWords' = R.activeWords
          /\ closed' = cl
          /\ out' = R.out
          /\ crashed' = FALSE
          /\ calls' = cnt
          /\ cooldowns' = R.cooldowns
          /\ spamCounts' = R.spamCounts
          /\ log' = R.log
  /\ now' = clock

\* A handler that runs without the clock moving.
Commit(R, cl, cnt) == CommitAt(R, cl, cnt, now)

\* Socket ids are opaque: connections are numbered in the order in which they
\* first enter a room, so the next new connection is the lowest unused id.
Known(s) == players[s] # NoPlayer \/ s \in closed

Live(s) ==
  /\ ~crashed
  /\ s \notin closed
  /\ \A q \in Sockets : q < s => Known(q)

\* Room codes are opaque too: generateRoomCode returns a code that is in use
\* or still referred to (a collision), or else the lowest code never used.
Referred(c) ==
  \/ rooms[c] # 0
  \/ \E s \in Sockets : players[s] # NoPlayer /\ players[s].room = c
  \/ \E t \in TimerIds : timers[t] # NoTimer /\ timers[t].code = c

Generated(c) == Referred(c) \/ \A b \in Codes : b < c => Referred(b)

Due(t, kind) == ~crashed /\ timers[t] # NoTimer /\ timers[t].kind = kind /\ timers[t].due = 0

OnCreateRoom(socks, codes, maxEntries) ==
  \E s \in socks, code \in codes :
    LET R == CreateRoom(State, s, code)
    IN /\ Live(s)
       /\ Generated(code)
       /\ calls.enter < maxEntries
       /\ Commit(R, closed, [calls EXCEPT !.enter = @ + 1])

\* A joinRoom that is accepted.
OnJoinRoom(socks, codes, limit, maxEntries) ==
  \E s \in socks, code \in codes :
    LET R == JoinRoom(State, s, code, limit)
    IN /\ Live(s)
       /\ R.roomObjs # roomObjs
       /\ calls.enter < maxEntries
       /\ Commit(R, closed, [calls EXCEPT !.enter = @ + 1])

\* A joinRoom that is refused: the caller gets {error} and nothing else happens.
OnJoinRefused(socks, codes) ==
  \E s \in socks, code \in codes :
    LET R == JoinRoom(State, s, code, Capacity + 1)
    IN /\ Live(s)
       /\ R.roomObjs = roomObjs
       /\ Commit(R, closed, calls)

OnStartGame(socks, maxGames) ==
  \E s \in socks, rounds \in 1..MaxRounds, roundTime \in {MaxRoundTime},
     d \in Sockets, w \in WordList :
    LET R == StartGame(State, s, rounds, roundTime, d, w)
    IN /\ Live(s)
       /\ calls.start < maxGames
       /\ Commit(R, closed, [calls EXCEPT !.start = @ + 1])

OnSubmitGuess(socks) ==
  \E s \in socks, guess \in Guesses :
    Live(s) /\ Commit(SubmitGuess(State, s, guess), closed, calls)

OnPlayAgain(socks) ==
  \E s \in socks : Live(s) /\ Commit(PlayAgain(State, s), closed, calls)

OnDisconnect(socks) ==
  \E s \in socks :
    /\ Live(s)
    /\ players[s] # NoPlayer
    /\ Commit(Disconnect(State, s), closed \cup {s}, calls)

OnTick ==
  \E t \in TimerIds : Due(t, "tick") /\ Commit(Tick(State, t), closed, calls)

OnGraceTimeout ==
  \E t \in TimerIds : Due(t, "grace") /\ Commit(GraceTimeout(State, t), closed, calls)

OnNextTimeout ==
  \E t \in TimerIds, d \in Sockets, w \in WordList :
    Due(t, "next") /\ Commit(NextTimeout(State, t, d, w), closed, calls)

\* One second passes; a timer that is due fires first.
Advance ==
  /\ ~crashed
  /\ \E t \in TimerIds : timers[t] # NoTimer
  /\ \A t \in TimerIds : timers[t] # NoTimer => timers[t].due > 0
  /\ timers' = [t \in TimerIds |->
                  IF timers[t] = NoTimer THEN NoTimer
                  ELSE [timers[t] EXCEPT !.due = @ - 1]]
  /\ out' = <<>>
  /\ UNCHANGED <<rooms, roomObjs, players, activeWords, closed, crashed, calls,
                 cooldowns, spamCounts, now, log>>

Next ==
  \/ OnCreateRoom(Sockets, Codes, MaxEntries)
  \/ OnJoinRoom(Sockets, Codes, MaxRoster, MaxEntries)
  \/ OnStartGame(Sockets, MaxGames)
  \/ OnSubmitGuess(Sockets)
  \/ OnPlayAgain(Sockets)
  \/ OnDisconnect(Sockets)
  \/ OnTick
  \/ OnGraceTimeout
  \/ OnNextTimeout
  \/ Advance

Spec == Init /\ [][Next]_vars

\* The membership handlers and the round clock with few connections and one
\* room code, whose rosters fill up to the capacity; nobody guesses or replays,
\* and the refused joins are steps as well.
LobbySockets == 1..NumLobbySockets

LobbyCodes == {1}

NextLobby ==
  \/ OnCreateRoom(LobbySockets, LobbyCodes, MaxLobbyEntries)
  \/ OnJoinRoom(LobbySockets, LobbyCodes, Capacity + 1, MaxLobbyEntries)
  \/ OnJoinRefused(LobbySockets, LobbyCodes)
  \/ OnStartGame(LobbySockets, MaxGames)
  \/ OnDisconnect(LobbySockets)
  \/ OnTick
  \/ OnNextTimeout
  \/ Advance

SpecLobby == Init /\ [][NextLobby]_vars

\* Rooms entered one after another with codes that never collide: the runs in
\* which generateRoomCode returns a code nothing refers to.
OnCreateFresh(socks, codes, maxEntries) ==
  \E s \in socks, code \in codes :
    LET R == CreateRoom(State, s, code)
    IN /\ Live(s)
       /\ Generated(code) /\ ~Referred(code)
       /\ calls.enter < maxEntries
       /\ Commit(R, closed, [calls EXCEPT !.enter = @ + 1])

NextRooms ==
  \/ OnCreateFresh(Sockets, Codes, MaxRoomEntries)
  \/ OnJoinRoom(Sockets, Codes, MaxRoster, MaxRoomEntries)
  \/ OnDisconnect(Sockets)

SpecRooms == Init /\ [][NextRooms]_vars

\* The whole server in the runs in which room codes never collide.
NextNoClash ==
  \/ OnCreateFresh(Sockets, Codes, MaxEntries)
  \/ OnJoinRoom(Sockets, Codes, MaxRoster, MaxEntries)
  \/ OnStartGame(Sockets, MaxGames)
  \/ OnSubmitGuess(Sockets)
  \/ OnPlayAgain(Sockets)
  \/ OnDisconnect(Sockets)
  \/ OnTick
  \/ OnGraceTimeout
  \/ OnNextTimeout
  \/ Advance

SpecNoClash == Init /\ [][NextNoClash]_vars

\* startGame with settings {rounds, roundTime} drawn from the sets given.
OnStartWith(socks, maxGames, roundCounts, roundTimes) ==
  \E s \in socks, rounds \in roundCounts, roundTime \in roundTimes,
     d \in Sockets, w \in WordList :
    LET R == StartGame(State, s, rounds, roundTime, d, w)
    IN /\ Live(s)
       /\ calls.start < maxGames
       /\ Commit(R, closed, [calls EXCEPT !.start = @ + 1])

\* One game of one round with a round time of ShortRound or LongRound seconds
\* in a room nobody leaves: the guesses arrive at any second of the countdown.
ScoreCodes == {1}

NextScore ==
  \/ OnCreateFresh(Sockets, ScoreCodes, MaxEntries)
  \/ OnJoinRoom(Sockets, ScoreCodes, MaxRoster, MaxEntries)
  \/ OnStartWith(Sockets, MaxGames, {1}, {ShortRound, LongRound})
  \/ OnSubmitGuess(Sockets)
  \/ OnTick
  \/ OnGraceTimeout
  \/ Advance

SpecScore == Init /\ [][NextScore]_vars

\* One second passes, in a run that is followed for maxSeconds seconds.
AdvanceWithin(maxSeconds) ==
  /\ ~crashed
  /\ calls.seconds < maxSeconds
  /\ \E t \in TimerIds : timers[t] # NoTimer
  /\ \A t \in TimerIds : timers[t] # NoTimer => timers[t].due > 0
  /\ timers' = [t \in TimerIds |->
                  IF timers[t] = NoTimer THEN NoTimer
                  ELSE [timers[t] EXCEPT !.due = @ - 1]]
  /\ out' = <<>>
  /\ calls' = [calls EXCEPT !.seconds = @ + 1]
  /\ UNCHANGED <<rooms, roomObjs, players, activeWords, closed, crashed,
                 cooldowns, spamCounts, now, log>>

\* The first MaxSeconds seconds of one game of LongGame rounds in one room,
\* which its members may leave.
NextLong ==
  \/ OnCreateFresh(Sockets, ScoreCodes, MaxEntries)
  \/ OnJoinRoom(Sockets, ScoreCodes, MaxRoster, MaxEntries)
  \/ OnStartWith(Sockets, MaxGames, {LongGame}, {MaxRoundTime})
  \/ OnSubmitGuess(Sockets)
  \/ OnDisconnect(Sockets)
  \/ OnTick
  \/ OnGraceTimeout
  \/ OnNextTimeout
  \/ AdvanceWithin(MaxSeconds)

SpecLong == Init /\ [][NextLong]_vars

\* ---- the anti-cheat guard, in milliseconds ---------------------------------
\* Time that passes before an action arrives: one millisecond short of the
\* cooldown, the cooldown, and most of a burst window.
Delays == {LastGuessTimeout - 1, LastGuessTimeout, SpamWindow - LastGuessTimeout \div 2}

\* A run is followed for a burst window and a cooldown and a half.
Horizon == SpamWindow + LastGuessTimeout + LastGuessTimeout \div 2

OnGuessAt(socks, delays, maxChecks, horizon) ==
  \E s \in socks, guess \in Guesses, d \in delays :
    /\ Live(s)
    /\ Len(log) < maxChecks
    /\ now + d <= Epoch + horizon
    /\ CommitAt(SubmitGuessAt(State, s, guess, now + d), closed, calls, now + d)

OnSendChatMessage(socks, delays, maxChecks, horizon) ==
  \E s \in socks, d \in delays :
    /\ Live(s)
    /\ Len(log) < maxChecks
    /\ now + d <= Epoch + horizon
    /\ CommitAt(SendChatMessage(State, s, now + d), closed, calls, now + d)

NextGuard ==
  \/ OnCreateFresh(LobbySockets, LobbyCodes, NumLobbySockets)
  \/ OnJoinRoom(LobbySockets, LobbyCodes, NumLobbySockets, NumLobbySockets)
  \/ OnGuessAt(LobbySockets, Delays, MaxChecks, Horizon)
  \/ OnSendChatMessage(LobbySockets, Delays, MaxChecks, Horizon)
  \/ OnDisconnect(LobbySockets)

SpecGuard == Init /\ [][NextGuard]_vars

\* ---- the claims ----------------------------------------------------------

LiveCodes == {c \in Codes : rooms[c] # 0}

RoomOf(c) == roomObjs[rooms[c]]

TimersOf(c) == {t \in TimerIds : timers[t] # NoTimer /\ timers[t].code = c}

\* C1: each started round ends exactly once: endRound runs at most once
\* between one round setup and the next, whatever the interleaving of timer
\* expiry, grace timeout and drawer disconnect.
C1_RoundEndsOnce ==
  \A o \in ObjIds :
    roomObjs[o] # NoRoom /\ roomObjs[o].gameState # NoGame
      => roomObjs[o].gameState.endRuns <= 1

\* C2: a room whose state is playing has exactly one pending timer (tick,
\* grace or inter-round).
C2_OneTimerWhilePlaying ==
  \A c \in LiveCodes :
    RoomOf(c).state = "playing" => Cardinality(TimersOf(c)) = 1

\* A timer of room c that was pending before the step and is pending after it.
Outlives(t, c) ==
  /\ timers[t] # NoTimer /\ timers[t].code = c
  /\ timers'[t] # NoTimer
  /\ timers'[t].kind = timers[t].kind
  /\ timers'[t].code = c
  /\ timers'[t].obj = timers[t].obj

\* The step ends a round of room c, destroys room c, or returns it to the lobby.
Supersedes(c) ==
  /\ rooms[c] # 0
  /\ \/ rooms'[c] = 0
     \/ /\ rooms'[c] = rooms[c]
        /\ RoomOf(c).state = "ended"
        /\ roomObjs'[rooms[c]].state = "lobby"
     \/ /\ rooms'[c] = rooms[c]
        /\ RoomOf(c).gameState # NoGame
        /\ roomObjs'[rooms[c]].gameState # NoGame
        /\ roomObjs'[rooms[c]].gameState.endRuns > RoomOf(c).gameState.endRuns

\* C3: a transition that supersedes a pending timer of a room (its round
\* ends, the room is destroyed, playAgain) leaves no timer of that room
\* pending that was scheduled before the transition.
C3_SupersededTimersCancelled ==
  [][\A c \in Codes : Supersedes(c) /\ ~crashed' => \A t \in TimerIds : ~Outlives(t, c)]_vars

\* The players of room c that hold isHost = true: in the roster entry, or in
\* the registry record players[id] that startGame and playAgain consult.
HostsOf(c) ==
  {RoomOf(c).players[i].id : i \in {j \in 1..Len(RoomOf(c).players) : RoomOf(c).players[j].isHost}}
    \cup {s \in Sockets : players[s] # NoPlayer /\ players[s].room = c /\ players[s].isHost}

\* C4: in every live room at most one player has isHost = true, and that
\* player is a current member of the room's roster.
C4_OneHostAndMember ==
  \A c \in LiveCodes :
    Cardinality(HostsOf(c)) <= 1 /\ HostsOf(c) \subseteq Ids(RoomOf(c).players)

\* How often id s appears in a roster.
Times(roster, s) == Cardinality({i \in 1..Len(roster) : roster[i].id = s})

\* C5: a player id is in the roster of at most one live room, at most once,
\* and players[id].room names that room.
C5_OneRoomPerPlayer ==
  \A s \in Sockets :
    /\ Cardinality({c \in LiveCodes : s \in Ids(RoomOf(c).players)}) <= 1
    /\ \A c \in LiveCodes :
         s \in Ids(RoomOf(c).players)
           => /\ Times(RoomOf(c).players, s) = 1
              /\ players[s] # NoPlayer
              /\ players[s].room = c

\* C6: gameState.currentDrawer, when set, is the id of a player in the
\* room's roster.
C6_DrawerIsMember ==
  \A c \in LiveCodes :
    RoomOf(c).gameState # NoGame /\ RoomOf(c).gameState.currentDrawer # 0
      => RoomOf(c).gameState.currentDrawer \in Ids(RoomOf(c).players)

\* C7: in a playing room playersWhoGuessed is a subset of the roster minus
\* the current drawer.
C7_GuessedAreMembers ==
  \A c \in LiveCodes :
    RoomOf(c).state = "playing"
      => RoomOf(c).gameState.playersWhoGuessed
           \subseteq (Ids(RoomOf(c).players) \ {RoomOf(c).gameState.currentDrawer})

\* The step ran startRound for room c to its end (roundStarted was emitted).
RoundStarted(c) ==
  \E i \in 1..Len(out') : out'[i].ev = "roundStarted" /\ out'[i].to = c

\* C8: when startRound runs for a room with at least 2 members in which a
\* previous round existed, the drawer it selects is not the previous drawer.
C8_DrawerRotates ==
  [][\A c \in Codes :
       /\ rooms[c] # 0
       /\ RoundStarted(c)
       /\ Len(RoomOf(c).players) >= 2
       /\ RoomOf(c).gameState # NoGame
       /\ RoomOf(c).gameState.currentDrawer # 0
       => roomObjs'[rooms'[c]].gameState.currentDrawer # RoomOf(c).gameState.currentDrawer]_vars

\* C8 witness: a second round has just been set up in a room of two members.
C8_Witness ==
  \E c \in LiveCodes :
    /\ Len(RoomOf(c).players) >= 2
    /\ RoomOf(c).gameState # NoGame
    /\ RoomOf(c).gameState.currentRound = 2
    /\ RoomOf(c).gameState.endRuns = 0
    /\ \E i \in 1..Len(out) : out[i].ev = "roundStarted" /\ out[i].to = c

\* C9: a lobby room with fewer than 2 members is not started: whatever is
\* called on it, startGame included, it stays in lobby with no gameState, no
\* timer is started for it and no roundStarted is broadcast.
C9_StartNeedsTwoPlayers ==
  [][\A c \in Codes :
       /\ rooms[c] # 0
       /\ rooms'[c] = rooms[c]
       /\ RoomOf(c).state = "lobby"
       /\ Len(RoomOf(c).players) < 2
       => /\ roomObjs'[rooms[c]].state = "lobby"
          /\ roomObjs'[rooms[c]].gameState = NoGame
          /\ \A t \in TimerIds :
               timers'[t] # NoTimer /\ timers'[t].code = c => timers'[t] = timers[t]
          /\ ~RoundStarted(c)]_vars

\* What a refused join is: the one reply to the caller, and no other change.
Refused(R, s, error) ==
  /\ R.out = <<[ev |-> error, aud |-> "reply", to |-> s, arg |-> <<>>]>>
  /\ [R EXCEPT !.out = <<>>] = State

\* C10: joinRoom fails with 'Room not found' for an unknown code, with 'Game
\* already started' when the room is not in lobby and with 'Room is full' when
\* a lobby room has 8 members, a failed join changes nothing, and no roster
\* ever holds more than 8 players.
C10_JoinRefusals ==
  /\ \A s \in Sockets, c \in Codes :
       LET R == JoinRoom(State, s, c, Capacity + 1)
       IN /\ rooms[c] = 0 => Refused(R, s, "Room not found")
          /\ rooms[c] # 0 /\ RoomOf(c).state # "lobby"
               => Refused(R, s, "Game already started")
          /\ rooms[c] # 0 /\ RoomOf(c).state = "lobby" /\ Len(RoomOf(c).players) >= 8
               => Refused(R, s, "Room is full")
  /\ \A o \in ObjIds : roomObjs[o] # NoRoom => Len(roomObjs[o].players) <= 8

\* C10 witness: a join was just refused because the room is full.
C10_Witness ==
  /\ \E i \in 1..Len(out) : out[i].ev = "Room is full"
  /\ \E c \in LiveCodes : Len(RoomOf(c).players) = 8

\* The step ran createRoom for connection s and generateRoomCode returned c.
Created(s, c) ==
  \E i \in 1..Len(out') : out'[i].ev = "roomCode" /\ out'[i].to = s /\ out'[i].arg = <<c>>

\* C11: createRoom returns a code that no live room uses: a live room is not
\* replaced or altered by the createRoom of a connection outside its roster.
C11_CreateLeavesLiveRooms ==
  [][\A c \in Codes, s \in Sockets :
       rooms[c] # 0 /\ s \notin Ids(RoomOf(c).players) /\ ~crashed'
         => /\ ~Created(s, c)
            /\ (\E b \in Codes : Created(s, b))
                 => rooms'[c] = rooms[c] /\ roomObjs'[rooms[c]] = RoomOf(c)]_vars

\* The connections whose startGame / playAgain passes the guards for room c
\* (players[id] exists, isHost is set, and players[id].room is c).
Authority(registry, c) ==
  {q \in Sockets : registry[q] # NoPlayer /\ registry[q].isHost /\ registry[q].room = c}

\* The roster of room c without connection s.
Remaining(c, s) == SelectSeq(RoomOf(c).players, LAMBDA p : p.id # s)

\* The step is the disconnect of connection s.
Disconnected(s) == s \notin closed /\ closed' = closed \cup {s}

\* The step broadcast newHost with id q to room c.
NewHostSent(c, q) ==
  \E i \in 1..Len(out') : out'[i].ev = "newHost" /\ out'[i].to = c /\ out'[i].arg = <<q>>

\* C12: when a member s of a live room c disconnects: if s was the last member
\* the room is deleted; if s was the host, room.host becomes the earliest-joined
\* remaining member, who alone can then trigger startGame / playAgain, and
\* newHost is broadcast; if s was not the host, the host is unchanged.
C12_HostSuccession ==
  [][\A s \in Sockets, c \in Codes :
       Disconnected(s) /\ rooms[c] # 0 /\ s \in Ids(RoomOf(c).players)
         => IF Len(Remaining(c, s)) = 0 THEN rooms'[c] = 0
            ELSE /\ rooms'[c] = rooms[c]
                 /\ IF s = RoomOf(c).host
                    THEN /\ roomObjs'[rooms[c]].host = Remaining(c, s)[1].id
                         /\ Authority(players', c) = {Remaining(c, s)[1].id}
                         /\ NewHostSent(c, Remaining(c, s)[1].id)
                    ELSE roomObjs'[rooms[c]].host = RoomOf(c).host]_vars

\* The countdown of room c is running: its tick interval is pending.
CountdownRunning(c) ==
  /\ RoomOf(c).timerInterval # 0
  /\ timers[RoomOf(c).timerInterval] # NoTimer
  /\ timers[RoomOf(c).timerInterval].kind = "tick"

\* Connection s is the drawer of the round running in room c, and c has
\* other members.
DrawerMidRound(s, c) ==
  /\ rooms[c] # 0
  /\ s \in Ids(RoomOf(c).players)
  /\ RoomOf(c).state = "playing"
  /\ RoomOf(c).gameState.currentDrawer = s
  /\ CountdownRunning(c)
  /\ Len(Remaining(c, s)) > 0

\* The inter-round timeout of room c has just been scheduled.
NextRoundScheduled(c) ==
  \E t \in TimerIds :
    /\ timers'[t] # NoTimer
    /\ timers'[t].kind = "next" /\ timers'[t].code = c /\ timers'[t].due = NextDelay

\* C13: when the drawer disconnects while the countdown is running and other
\* members remain, the same step cancels the tick timer, releases the word
\* lock, and either moves the game to ended (currentRound >= rounds) or
\* advances currentRound, broadcasts roundEnded and schedules the next round
\* after the inter-round delay.
C13_DrawerLeavesMidRound ==
  [][\A s \in Sockets, c \in Codes :
       Disconnected(s) /\ DrawerMidRound(s, c)
         => /\ ~crashed'
            /\ rooms'[c] = rooms[c]
            /\ \A t \in TimerIds : timers'[t] # NoTimer => timers'[t].kind # "tick"
            /\ ToLowerCase(RoomOf(c).gameState.word) \notin activeWords'
            /\ IF RoomOf(c).gameState.currentRound >= RoomOf(c).gameState.rounds
               THEN /\ roomObjs'[rooms[c]].state = "ended"
                    /\ \E i \in 1..Len(out') : out'[i].ev = "gameEnded" /\ out'[i].to = c
               ELSE /\ roomObjs'[rooms[c]].state = "playing"
                    /\ roomObjs'[rooms[c]].gameState.currentRound
                         = RoomOf(c).gameState.currentRound + 1
                    /\ \E i \in 1..Len(out') : out'[i].ev = "roundEnded" /\ out'[i].to = c
                    /\ NextRoundScheduled(c)]_vars

\* The step is a correct guess in room c (correctGuess went to the others).
GuessedRight(c) ==
  \E i \in 1..Len(out') : out'[i].ev = "correctGuess" /\ out'[i].aud = "others" /\ out'[i].to = c

\* After the step every member of room c other than the drawer has guessed.
AllMembersGuessed(c) ==
  \A i \in 1..Len(roomObjs'[rooms[c]].players) :
    \/ roomObjs'[rooms[c]].players[i].id = roomObjs'[rooms[c]].gameState.currentDrawer
    \/ roomObjs'[rooms[c]].players[i].id \in roomObjs'[rooms[c]].gameState.playersWhoGuessed

\* C14: after a correct guess, if every non-drawer player currently in the
\* room has guessed, the tick timer is cancelled and endRound is scheduled
\* after the 2-second grace delay (the round is not ended in the guess step
\* itself), also when players present at game start have left since.
C14_AllGuessedEndsRound ==
  [][\A c \in Codes :
       rooms[c] # 0 /\ rooms'[c] = rooms[c] /\ GuessedRight(c) /\ AllMembersGuessed(c)
         => /\ \A t \in TimerIds :
                 timers'[t] # NoTimer /\ timers'[t].code = c => timers'[t].kind # "tick"
            /\ \E t \in TimerIds :
                 /\ timers'[t] # NoTimer /\ timers'[t].kind = "grace"
                 /\ timers'[t].code = c /\ timers'[t].due = GraceDelay
            /\ roomObjs'[rooms[c]].state = "playing"
            /\ roomObjs'[rooms[c]].gameState.endRuns = RoomOf(c).gameState.endRuns]_vars

\* The step delivered correctGuess to the guesser s.
GuessedRightBy(s) ==
  \E i \in 1..Len(out') : out'[i].ev = "correctGuess" /\ out'[i].aud = "socket" /\ out'[i].to = s

\* C15: a correct guess with t seconds left of a round of T seconds adds
\* floor(100 * t / T) to the guesser's total and floor(that amount * 0.5) to
\* the drawer's total; every other total is as it was.
C15_ScoreOfGuess ==
  [][\A c \in Codes, s \in Sockets :
       /\ rooms[c] # 0 /\ rooms'[c] = rooms[c]
       /\ GuessedRight(c) /\ GuessedRightBy(s)
       /\ RoomOf(c).gameState.timer >= 0
       => LET gs == RoomOf(c).gameState
              amount == (100 * gs.timer) \div gs.roundTime
          IN roomObjs'[rooms[c]].gameState.scores =
               [q \in Sockets |->
                  IF q = s THEN gs.scores[q] + amount
                  ELSE IF q = gs.currentDrawer THEN gs.scores[q] + amount \div 2
                  ELSE gs.scores[q]]]_vars

\* The scores and playersWhoGuessed of every room object, in a handler's result.
Tally(R) ==
  [o \in ObjIds |->
     IF R.roomObjs[o] = NoRoom \/ R.roomObjs[o].gameState = NoGame THEN <<>>
     ELSE <<R.roomObjs[o].gameState.scores, R.roomObjs[o].gameState.playersWhoGuessed>>]

\* Connection s is in a live room where its guess is to be rejected outright:
\* the room is not playing, or s is the drawer, or s has guessed this round.
GuessRejected(s) ==
  /\ players[s] # NoPlayer
  /\ rooms[players[s].room] # 0
  /\ \/ RoomOf(players[s].room).state # "playing"
     \/ s = RoomOf(players[s].room).gameState.currentDrawer
     \/ s \in RoomOf(players[s].room).gameState.playersWhoGuessed

\* C16: a guess submitted while the room is not playing, by the drawer, or by
\* a player who has guessed correctly this round changes no score and no
\* playersWhoGuessed entry; the same guess submitted a second time by one
\* player changes nothing the first submission has not changed.
C16_RejectedGuessChangesNothing ==
  \A s \in Sockets, guess \in Guesses :
    LET once == SubmitGuess(State, s, guess)
        twice == SubmitGuess(once, s, guess)
    IN /\ GuessRejected(s) => Tally(once) = Tally(State) /\ once.out = <<>>
       /\ ~Stopped(once) /\ Tally(once) # Tally(State) => Tally(twice) = Tally(once)

\* C16 witness: a player who has been scored in this round is still in the
\* playing room, and so is the drawer; a further guess of theirs is rejected.
C16_Witness ==
  \E s \in Sockets :
    /\ GuessRejected(s)
    /\ RoomOf(players[s].room).state = "playing"
    /\ s \in RoomOf(players[s].room).gameState.playersWhoGuessed
    /\ RoomOf(players[s].room).gameState.scores[s] > 0
    /\ \E i \in 1..Len(out) : out[i].ev = "correctGuess" /\ out[i].to = s

\* C17: within one game (while the room is playing) no player's accumulated
\* score decreases from one state to the next.
C17_ScoresNeverDecrease ==
  [][\A o \in ObjIds :
       /\ roomObjs[o] # NoRoom /\ roomObjs[o].state = "playing"
       /\ roomObjs'[o] # NoRoom /\ roomObjs'[o].gameState # NoGame
       => \A p \in Sockets :
            roomObjs'[o].gameState.scores[p] >= roomObjs[o].gameState.scores[p]]_vars

\* The connections that receive what the step sent to "the others" of room c
\* (socket.to(roomCode), sender excluded), as far as the roster tells: every
\* connected roster member has joined the socket.io room of its code.
OtherReceivers(c, sender) ==
  {q \in Ids(roomObjs'[rooms[c]].players) : q \notin closed' /\ q # sender}

\* C18: the literal round word goes only to the drawer (wordUpdate) and, in
\* correctGuess, to the player who guessed it; roundStarted carries no word,
\* and what correctGuess carries to any other player is not the literal word.
C18_WordStaysHidden ==
  [][\A c \in Codes :
       rooms[c] # 0 /\ rooms'[c] = rooms[c] /\ roomObjs'[rooms[c]].gameState # NoGame
       => LET gs == roomObjs'[rooms[c]].gameState
          IN \A i \in 1..Len(out') :
               /\ out'[i].ev = "roundStarted" /\ out'[i].to = c => out'[i].arg # gs.word
               /\ out'[i].ev = "wordUpdate" /\ out'[i].arg = gs.word
                    => out'[i].aud = "socket" /\ out'[i].to = gs.currentDrawer
               /\ out'[i].ev = "correctGuess" /\ out'[i].aud = "others"
                    /\ out'[i].to = c /\ out'[i].arg = gs.word
                    => \A s \in Sockets :
                         GuessedRightBy(s) => OtherReceivers(c, s) \subseteq {gs.currentDrawer}]_vars


\* ---- C19 -----------------------------------------------------------------
\* The call of checkCooldown a step has made, when it has made one.
Checked == Len(log') = Len(log) + 1

\* That call had an accepted action of the same player and kind less than
\* LastGuessTimeout before it.
TooSoon(e) ==
  \E i \in 1..Len(log) :
    /\ log[i].id = e.id /\ log[i].type = e.type /\ log[i].allowed
    /\ e.t - log[i].t < LastGuessTimeout

BurstCount(entry) == IF entry = NoEntry THEN 0 ELSE entry.count

\* C19 as stated: an action less than 1000 ms after the same player's last
\* accepted action of its kind is rejected, and a rejected action changes
\* neither the player's per-kind timestamps nor the player's burst counter.
C19_RejectionChangesNothing ==
  [][Checked =>
       LET e == log'[Len(log')]
       IN /\ TooSoon(e) => ~e.allowed
          /\ ~e.allowed =>
               /\ cooldowns'[e.id] = cooldowns[e.id]
               /\ BurstCount(spamCounts'[e.id]) = BurstCount(spamCounts[e.id])]_vars

\* C19 amended: an action less than 1000 ms after the same player's last
\* accepted action of its kind is rejected whatever the burst counter holds; a
\* rejected action changes no per-kind timestamp and never raises a burst
\* counter: it leaves the burst state as it was or, when more than 5000 ms have
\* passed since the player's window began or resetSpamCounter has removed the
\* player's burst state, starts a window (count 0, window start at the time of
\* the action).
C19_RejectionNeverCounts ==
  [][Checked =>
       LET e == log'[Len(log')]
       IN /\ TooSoon(e) => ~e.allowed
          /\ ~e.allowed =>
               /\ cooldowns' = cooldowns
               /\ \A s \in Sockets : s # e.id => spamCounts'[s] = spamCounts[s]
               /\ \/ spamCounts'[e.id] = spamCounts[e.id]
                  \/ /\ \/ spamCounts[e.id] = NoEntry
                        \/ e.t - spamCounts[e.id].lastReset > SpamWindow
                     /\ spamCounts'[e.id] = [count |-> 0, lastReset |-> e.t]]_vars

\* An action one millisecond short of the cooldown has been rejected, and it
\* has restarted the player's burst window.
C19_Witness ==
  /\ log # <<>>
  /\ LET e == log[Len(log)]
     IN /\ ~e.allowed
        /\ \E i \in 1..(Len(log) - 1) :
             /\ log[i].id = e.id /\ log[i].type = e.type /\ log[i].allowed
             /\ e.t - log[i].t = LastGuessTimeout - 1
        /\ ~e.first
        /\ spamCounts[e.id] = [count |-> 0, lastReset |-> e.t]


\* ---- C20 -----------------------------------------------------------------
\* The calls of checkCooldown made for player s, in order.
ActionsOf(s) ==
  LET Mine(e) == e.id = s
  IN SelectSeq(log, Mine)

\* The first n actions of a player fall within one burst window counted from
\* the first, with no resetSpamCounter in between, each at least
\* LastGuessTimeout after every earlier accepted action of its kind.
WellSpaced(L, n) ==
  /\ Len(L) >= n
  /\ L[n].t - L[1].t <= SpamWindow
  /\ \A i \in 2..n : ~L[i].first
  /\ \A i \in 1..n : \A j \in 1..(i - 1) :
       L[j].type = L[i].type /\ L[j].allowed => L[i].t - L[j].t >= LastGuessTimeout

Accepted(L, n) == Cardinality({i \in 1..n : L[i].allowed})

\* C20: of the first six actions of a fresh player, issued within one
\* 5000 ms window counted from the first (the player's burst state not being
\* reset in between) and each at least 1000 ms after the previous accepted
\* action of its kind, exactly five are accepted and one is rejected.
C20_FiveOfSixAccepted ==
  \A s \in Sockets :
    WellSpaced(ActionsOf(s), SpamLimit + 1) =>
      /\ Accepted(ActionsOf(s), SpamLimit + 1) = SpamLimit
      /\ ~ActionsOf(s)[SpamLimit + 1].allowed

\* A player has issued six such actions, of both kinds.
C20_Witness ==
  \E s \in Sockets :
    /\ WellSpaced(ActionsOf(s), SpamLimit + 1)
    /\ \E i, j \in 1..(SpamLimit + 1) : ActionsOf(s)[i].type # ActionsOf(s)[j].type


\* ---- C21 -----------------------------------------------------------------
\* connectionStateRecovery (part_001 lines 24-26): a connection that was lost
\* comes back with the socket id it had, and its handlers are registered anew.
OnRecover(socks) ==
  \E s \in socks :
    /\ ~crashed
    /\ s \in closed
    /\ closed' = closed \ {s}
    /\ UNCHANGED <<rooms, roomObjs, players, timers, activeWords, out, crashed, calls,
                   cooldowns, spamCounts, now, log>>

RecoverSockets == {1}

NextRecover ==
  \/ OnCreateFresh(RecoverSockets, LobbyCodes, MaxEntries)
  \/ OnGuessAt(RecoverSockets, Delays, MaxChecks, Horizon)
  \/ OnSendChatMessage(RecoverSockets, Delays, MaxChecks, Horizon)
  \/ OnDisconnect(RecoverSockets)
  \/ OnRecover(RecoverSockets)

SpecRecover == Init /\ [][NextRecover]_vars

\* The player's spam state has been cleared by resetSpamCounter: the player
\* has acted before and has no spamCounts entry.
WasReset(s) == spamCounts[s] = NoEntry /\ \E i \in 1..Len(log) : log[i].id = s

\* C21: after resetSpamCounter(playerId) the next action of any kind by that
\* id is allowed, as a first-ever action is, however recently the id acted
\* before the reset.
C21_ResetClearsPlayer ==
  [][Checked =>
       LET e == log'[Len(log')]
       IN WasReset(e.id) => e.allowed]_vars


\* ---- C22 -----------------------------------------------------------------
\* Socket s is the host of the room it is registered in, and that room is ended.
HostOfEnded(s) ==
  /\ players[s] # NoPlayer
  /\ rooms[players[s].room] # 0
  /\ RoomOf(players[s].room).host = s
  /\ RoomOf(players[s].room).state = "ended"

\* What playAgain does for the host of an ended room: lobby, no gameState,
\* lobbyRestarted broadcast, everything else as it was.
Restarted(s) ==
  LET code == players[s].room
      o == rooms[code]
  IN [State EXCEPT !.roomObjs[o].state = "lobby",
                   !.roomObjs[o].gameState = NoGame,
                   !.out = <<[ev |-> "lobbyRestarted", aud |-> "room", to |-> code,
                              arg |-> <<>>]>>]

\* C22: playAgain issued by the host of an ended room sets the room to lobby
\* and discards gameState, leaving roster and host as they were; issued by
\* anyone else or in any other state it changes nothing and broadcasts nothing.
C22_PlayAgainHostOnly ==
  \A s \in Sockets :
    PlayAgain(State, s) = IF HostOfEnded(s) THEN Restarted(s) ELSE State


\* ---- C24 -----------------------------------------------------------------
\* The inter-round timeout t is due for a playing room that has members.
SetupDue(t) ==
  /\ Due(t, "next")
  /\ rooms[timers[t].code] # 0
  /\ RoomOf(timers[t].code).state = "playing"
  /\ RoomOf(timers[t].code).gameState # NoGame
  /\ Len(RoomOf(timers[t].code).players) >= 1

\* startRound, run by timeout t with Math.random selecting d, has set up a
\* round drawn by d.
SetsUp(t, d, w) ==
  LET c == timers[t].code
      R == NextTimeout(State, t, d, w)
  IN /\ ~R.crashed
     /\ ~R.skip
     /\ R.roomObjs[R.rooms[c]].gameState.currentDrawer = d
     /\ \E i \in 1..Len(R.out) : R.out[i].ev = "roundStarted" /\ R.out[i].to = c

\* C24: round setup for a playing room with members never fails and selects
\* a drawer who is a current member; with one member left who drew the
\* previous round, that member is selected.
C24_RoundSetupFindsDrawer ==
  \A t \in TimerIds :
    SetupDue(t) =>
      /\ \A d \in Sockets, w \in WordList : ~NextTimeout(State, t, d, w).crashed
      /\ \E d \in Ids(RoomOf(timers[t].code).players), w \in WordList : SetsUp(t, d, w)


\* ---- C23 -----------------------------------------------------------------
\* One player's actions over two burst windows and a cooldown.
SpanHorizon == 2 * SpamWindow + LastGuessTimeout

\* Time that passes before an action arrives: one millisecond short of the
\* cooldown, or most of a burst window.
SpanDelays == {LastGuessTimeout - 1, SpamWindow - LastGuessTimeout \div 2}

NextWindow ==
  \/ OnCreateFresh(RecoverSockets, LobbyCodes, NumLobbySockets)
  \/ OnGuessAt(RecoverSockets, SpanDelays, MaxSpanChecks, SpanHorizon)
  \/ OnSendChatMessage(RecoverSockets, SpanDelays, MaxSpanChecks, SpanHorizon)
  \/ OnDisconnect(RecoverSockets)
  \/ OnRecover(RecoverSockets)

SpecWindow == Init /\ [][NextWindow]_vars

\* The accepted actions among those of L that lie in [from, from + SpamWindow).
AcceptedInSpan(L, from) ==
  {j \in 1..Len(L) : L[j].allowed /\ L[j].t >= from /\ L[j].t - from < SpamWindow}

\* C23 as stated: in any span of 5000 ms, wherever it starts, at most 5
\* actions of a player are accepted, all kinds together.
C23_AtMostFivePerSpan ==
  \A s \in Sockets : \A i \in 1..Len(ActionsOf(s)) :
    Cardinality(AcceptedInSpan(ActionsOf(s), ActionsOf(s)[i].t)) <= SpamLimit

\* The action that started the burst window action i of L falls into: the
\* player's first action, the first after a resetSpamCounter, or the first
\* more than SpamWindow after the start of the window before.
RECURSIVE WindowStart(_, _)
WindowStart(L, i) ==
  IF i = 1 \/ L[i].first THEN i
  ELSE LET before == WindowStart(L, i - 1)
       IN IF L[i].t - L[before].t > SpamWindow THEN i ELSE before

\* The window every action of L falls into.
Windows(L) == [j \in 1..Len(L) |-> WindowStart(L, j)]

AcceptedInWindow(L, starts, i) ==
  {j \in 1..Len(L) : L[j].allowed /\ starts[j] = starts[i]}

\* C23 amended: within one burst window of a player (from the action that
\* starts it until the first action more than 5000 ms later or the first after
\* a resetSpamCounter, which starts the next) at most 5 actions are accepted,
\* all kinds together.
C23_AtMostFivePerWindow ==
  \A s \in Sockets :
    LET L == ActionsOf(s)
        starts == Windows(L)
    IN \A i \in 1..Len(L) : Cardinality(AcceptedInWindow(L, starts, i)) <= SpamLimit

\* A window with five accepted actions in which a further action was rejected.
C23_Witness ==
  \E s \in Sockets :
    LET L == ActionsOf(s)
        starts == Windows(L)
    IN \E i \in 1..Len(L) :
         /\ ~L[i].allowed
         /\ Cardinality(AcceptedInWindow(L, starts, i)) = SpamLimit


\* ---- C25 -----------------------------------------------------------------
\* One room and its game, with the timers firing: a callback that is due runs,
\* and time passes while none is due.
NextGame ==
  \/ OnCreateFresh(LobbySockets, LobbyCodes, NumLobbySockets)
  \/ OnJoinRoom(LobbySockets, LobbyCodes, NumLobbySockets, NumLobbySockets)
  \/ OnStartGame(LobbySockets, MaxGames)
  \/ OnSubmitGuess(LobbySockets)
  \/ OnDisconnect(LobbySockets)
  \/ OnTick
  \/ OnGraceTimeout
  \/ OnNextTimeout
  \/ Advance

SpecGame ==
  /\ Init /\ [][NextGame]_vars
  /\ WF_vars(OnTick) /\ WF_vars(OnGraceTimeout) /\ WF_vars(OnNextTimeout)
  /\ WF_vars(Advance)

Playing(c) == rooms[c] # 0 /\ RoomOf(c).state = "playing"

\* The game of room c is over: the room is ended, or its last member has left
\* and it was deleted, the server still running.
GameOver(c) == ~crashed /\ (rooms[c] = 0 \/ RoomOf(c).state = "ended")

\* C25: with timers firing, a room that is playing always has a timer
\* pending and eventually is ended or destroyed, whatever the number of
\* rounds and the interleaving of guesses and disconnects.
C25_GameReachesEnd ==
  /\ [](\A c \in LobbyCodes : Playing(c) => TimersOf(c) # {})
  /\ \A c \in LobbyCodes : Playing(c) ~> GameOver(c)


\* ---- C26 -----------------------------------------------------------------
\* Room c has an active round: it is playing, a word is assigned and the
\* round has not ended.
ActiveRound(c) ==
  /\ RoomOf(c).state = "playing"
  /\ RoomOf(c).gameState # NoGame
  /\ RoomOf(c).gameState.word # NoWord
  /\ RoomOf(c).gameState.endRuns = 0

\* Two connections, each with a room of its own and a one-round game in it.
NextWords ==
  \/ OnCreateFresh(LobbySockets, Codes, NumLobbySockets)
  \/ OnStartWith(LobbySockets, NumLobbySockets, {1}, {MaxRoundTime})
  \/ OnDisconnect(LobbySockets)
  \/ OnTick
  \/ Advance

SpecWords == Init /\ [][NextWords]_vars

\* The word of every active round is in the lock table.
RoundWordsLocked ==
  \A c \in LiveCodes :
    ActiveRound(c) => ToLowerCase(RoomOf(c).gameState.word) \in activeWords

\* C26: the word of every room with an active round is in the lock table,
\* whatever other rooms do, and a lock entry is gone once the round has ended
\* or the room was destroyed: every entry is the word of some active round.
C26_WordLockedWhileRoundRuns ==
  /\ RoundWordsLocked
  /\ \A w \in activeWords :
       \E c \in LiveCodes : ActiveRound(c) /\ ToLowerCase(RoomOf(c).gameState.word) = w


\* ---- C27 -----------------------------------------------------------------
\* endRound has run for the round of room c and startRound has not set up the
\* next one.
RoundOver(c) ==
  /\ rooms[c] # 0
  /\ RoomOf(c).gameState # NoGame
  /\ RoomOf(c).gameState.endRuns >= 1

\* C27: between the end of a round (timer expiry, grace timeout or drawer
\* disconnect) and the start of the next, no submitGuess changes a score or
\* playersWhoGuessed.
C27_NoScoreBetweenRounds ==
  \A s \in Sockets, guess \in Guesses :
    players[s] # NoPlayer /\ RoundOver(players[s].room)
      => Tally(SubmitGuess(State, s, guess)) = Tally(State)

====
